---- MODULE Spec2Model ----
(***************************************************************************)
(* Model of the Telegram secretary bot of src/bot.py: the per-chat         *)
(* user_data dictionary (section, mode, persona, tasks), the process-wide  *)
(* MARKET_RATE_USD, and the four registered handlers (start,               *)
(* handle_message, handle_callback_query, handle_document).                *)
(*                                                                         *)
(* Button labels and reply texts are written in ASCII and without their    *)
(* emoji prefix: "Back" is the label U+1F519 + " Back", "New Reminder" is  *)
(* the label "Reminder" followed by the Burmese word for "new", "List" is  *)
(* the Burmese "view list" label.                                          *)
(***************************************************************************)
EXTENDS Naturals, Integers, Sequences, FiniteSets, TLC

VARIABLES ud, MARKET_RATE_USD, last, out, calls, prevTok, queue, running

vars == <<ud, MARKET_RATE_USD, last, out, calls, prevTok, queue, running>>

\* ------------------------------------------------------------------------
\* Bounds
\* ------------------------------------------------------------------------

\* longest task list the model lets a session build
MaxTasks == 2

\* most updates the model lets wait for the dispatcher
MaxQueue == 2

\* chats known to the transport; ActiveChats are those that send events in Spec
Chats == {"c1", "c2"}

ActiveChats == {"c1"}

\* ------------------------------------------------------------------------
\* Values of user_data
\* ------------------------------------------------------------------------

\* Python None (also the value of user_data.get('mode') when the key is absent)
None == "None"

\* marker for a key that is not present in user_data
NoKey == "<absent>"

Sections == {"main", "brain", "ai_assistant", "schedule", "utils", "settings"}

AIModes == {"email", "summarize", "translate", "report"}

\* MARKET_RATE_USD = 5200  # Default Estimate
DefaultMarketRate == 5200

\* user_data of a chat that has not been touched yet: an empty dict.
\* tasks is read everywhere with .get('tasks', []), so an absent key is <<>>.
EmptyUserData == [section |-> NoKey, mode |-> None, persona |-> NoKey, tasks |-> <<>>]

\* context.user_data.get('section', 'main')
GetSection(s) == IF s.section = NoKey THEN "main" ELSE s.section

\* context.user_data.get('persona', 'cute')
GetPersona(s) == IF s.persona = NoKey THEN "cute" ELSE s.persona

\* ------------------------------------------------------------------------
\* Texts
\* ------------------------------------------------------------------------

BackTokens == {"Back", "Main Menu"}

MainLabels == {"My Brain", "AI Assistant", "My Schedule", "Utilities"}

ScheduleLabels == {"New Reminder", "List", "Task Done"}

UtilsLabels == {"Weather", "Currency", "Settings", "About Secretary"}

SettingsLabels == {"Set Market Rate", "Change Persona", "Clear Memory"}

AILabels == {"Email Draft", "Summarize", "Translate", "Report"}

MenuLabels == MainLabels \cup ScheduleLabels \cup UtilsLabels \cup SettingsLabels \cup AILabels

\* the button rows of the reply keyboards
KeyboardButtons(kb) ==
    CASE kb = "MAIN_MENU" -> <<"My Brain", "AI Assistant", "My Schedule", "Utilities">>
      [] kb = "AI_TOOLS_MENU" -> <<"Email Draft", "Summarize", "Translate", "Report", "Main Menu">>
      [] kb = "SCHEDULE_MENU" -> <<"New Reminder", "List", "Task Done", "Main Menu">>
      [] kb = "UTILS_MENU" -> <<"Weather", "Currency", "Settings", "About Secretary", "Main Menu">>
      [] kb = "SETTINGS_MENU" -> <<"Change Persona", "Clear Memory", "Set Market Rate", "Back">>
      [] kb = "BACK_BTN" -> <<"Back">>
      [] kb = "BRAIN_INLINE" -> <<"add_doc", "add_link", "list_mem", "del_data">>
      [] OTHER -> <<>>

\* the keyboard sent when a section is entered
SectionKeyboard(section) ==
    CASE section = "brain" -> "BRAIN_INLINE"
      [] section = "ai_assistant" -> "AI_TOOLS_MENU"
      [] section = "schedule" -> "SCHEDULE_MENU"
      [] section = "utils" -> "UTILS_MENU"
      [] section = "settings" -> "SETTINGS_MENU"
      [] OTHER -> "MAIN_MENU"

\* "^2" stands for the one-character text U+00B2 (SUPERSCRIPT TWO)
DigitTexts == {"0", "1", "2", "3", "4500", "^2"}

\* str.isdigit()
IsDigit(text) == text \in DigitTexts

\* int(text) raises ValueError: U+00B2 is a digit for isdigit() but not a decimal
IntRaises(text) == text \notin {"0", "1", "2", "3", "4500"}

\* int(text) where it returns
IntOf(text) ==
    CASE text = "0" -> 0
      [] text = "1" -> 1
      [] text = "2" -> 2
      [] text = "3" -> 3
      [] text = "4500" -> 4500
      [] OTHER -> 0

\* str(n) as used by the f-strings
StrOf(n) ==
    CASE n = 0 -> "0"
      [] n = 1 -> "1"
      [] n = 2 -> "2"
      [] n = 3 -> "3"
      [] n = 4500 -> "4500"
      [] n = 5200 -> "5200"
      [] OTHER -> "n"

\* text.startswith("http")
StartsWithHttp(text) == text \in {"http://a.b", "https://a.b", "httpx"}

\* free texts the model sends, besides the labels
FreeTexts == {"abc", "Buy milk", "Yangon", "http://a.b", "https://a.b", "httpx"} \cup DigitTexts

Texts == BackTokens \cup MenuLabels \cup FreeTexts

\* ------------------------------------------------------------------------
\* Outgoing messages and external calls
\* ------------------------------------------------------------------------

\* update.message.reply_text(text, reply_markup=kb); arg are the values an
\* f-string interpolates into the text
Reply(text, arg, kb) == [op |-> "reply_text", text |-> text, arg |-> arg, kb |-> kb]

\* context.bot.edit_message_text / query.edit_message_text
Edit(text, arg) == [op |-> "edit_message_text", text |-> text, arg |-> arg, kb |-> "-"]

\* one call into an external service: its argument, whether it returned
\* ("ok") or raised, and the values it returned (page contents of the
\* documents for similarity_search, not recorded for the other services)
Call(svc, arg, res) == [svc |-> svc, arg |-> arg, res |-> res, ret |-> <<>>]

\* snippets that similarity_search returns when it finds something
Snippets == <<"doc1", "doc2">>

\* outcomes of the external services during one handler run:
\*  llm      llm.invoke returns / raises (also raises when llm is None)
\*  db       vector store and index: returns with snippets, returns nothing,
\*           raises, or was never initialised (vector_store is None)
\*  weather  get_weather_data returns data, returns None (its own except
\*           included), or returns data whose us_aqi is null
\*  fx       get_currency_data returns data or None
Envs == [llm : {"ok", "raise"}, db : {"ok", "empty", "raise", "down"},
         weather : {"ok", "none", "noaqi"}, fx : {"ok", "none"}]

OkEnv == [llm |-> "ok", db |-> "ok", weather |-> "ok", fx |-> "ok"]

\* result of running a piece of a handler: the user_data, the market rate,
\* the messages sent, the external calls made, the place it returned from
\* and whether an exception left the try block (handle_message) or the
\* handler (handle_callback_query, which has no try block)
Res(s, rate, o, c, path, exc) ==
    [s |-> s, rate |-> rate, out |-> o, calls |-> c, path |-> path, exc |-> exc]

\* ------------------------------------------------------------------------
\* handle_message, section by section
\* ------------------------------------------------------------------------

\* BackTarget with the settings branch leading nowhere
BackTargetStuck(section) == IF section = "settings" THEN "settings" ELSE "main"

\* BackTarget with the schedule branch staying in the schedule
BackTargetSchedule(section) ==
    IF section = "settings" THEN "utils"
    ELSE IF section = "schedule" THEN "schedule" ELSE "main"

\* where the back button leads from a section
BackTarget(section) == IF section = "settings" THEN "utils" ELSE "main"

\* BackNav without the mode reset
BackNavKeepMode(s, rate, section) ==
    LET target == BackTarget(section)
        msg == IF target = "utils" THEN Reply("Utilities Menu", <<>>, "UTILS_MENU")
                                   ELSE Reply("Main Menu", <<>>, "MAIN_MENU")
    IN Res([s EXCEPT !.section = target], rate, <<msg>>, <<>>, "back", FALSE)

\* --- 1. Global Back Button Logic
BackNav(s, rate, section) ==
    LET target == BackTarget(section)
        msg == IF target = "utils" THEN Reply("Utilities Menu", <<>>, "UTILS_MENU")
                                   ELSE Reply("Main Menu", <<>>, "MAIN_MENU")
    IN Res([s EXCEPT !.mode = None, !.section = target], rate, <<msg>>, <<>>, "back", FALSE)

\* process_link with an except block that passes
process_linkSilent(url, env) ==
    LET res == IF env.db \in {"ok", "empty"} THEN "ok" ELSE "raise"
    IN [out |-> IF res = "ok" THEN <<Reply("Processing...", <<>>, "-"), Edit("Done.", <<>>)>>
                              ELSE <<Reply("Processing...", <<>>, "-")>>,
        calls |-> <<Call("vector_store.add_documents", <<url>>, res)>>]

\* process_link: the loader and vector_store.add_documents either both
\* return or one of them raises (vector_store None raises as well)
process_link(url, env) ==
    LET res == IF env.db \in {"ok", "empty"} THEN "ok" ELSE "raise"
    IN [out |-> <<Reply("Processing...", <<>>, "-"),
                  IF res = "ok" THEN Edit("Done.", <<>>) ELSE Edit("Error: e", <<>>)>>,
        calls |-> <<Call("vector_store.add_documents", <<url>>, res)>>]

\* call_ai_direct: the reply is sent only when llm.invoke returns
call_ai_direct(prompt, env) ==
    [out |-> IF env.llm = "ok" THEN <<Reply("response.content", prompt, "-")>> ELSE <<>>,
     calls |-> <<Call("llm.invoke", prompt, env.llm)>>]

\* tasks.pop(i): the index is not shifted to 0-based
PopOffByOne(tasks, i) == SubSeq(tasks, 1, i) \o SubSeq(tasks, i + 2, Len(tasks))

\* tasks.pop(i - 1)
Pop(tasks, i) == SubSeq(tasks, 1, i - 1) \o SubSeq(tasks, i + 1, Len(tasks))

ModeAddLink(s, rate, text, env) ==
    IF StartsWithHttp(text)
    THEN LET p == process_link(text, env)
         IN Res([s EXCEPT !.mode = None], rate, p.out, p.calls, "capture", FALSE)
    ELSE Res([s EXCEPT !.mode = None], rate,
             <<Reply("Invalid link", <<>>, "BACK_BTN")>>, <<>>, "capture", FALSE)

\* ModeSetMarketRate that keeps the mode after the "digits only" reply
ModeSetMarketRateRetry(s, rate, text, env) ==
    IF IsDigit(text)
    THEN IF IntRaises(text)
         THEN Res(s, rate, <<>>, <<>>, "capture", TRUE)
         ELSE Res([s EXCEPT !.mode = None], IntOf(text),
                  <<Reply("Market Rate (USD) changed", <<StrOf(IntOf(text))>>, "SETTINGS_MENU")>>,
                  <<>>, "capture", FALSE)
    ELSE Res(s, rate,
             <<Reply("Digits only please (e.g. 4500)", <<>>, "SETTINGS_MENU")>>,
             <<>>, "capture", FALSE)

ModeSetMarketRate(s, rate, text, env) ==
    IF IsDigit(text)
    THEN IF IntRaises(text)
         THEN Res(s, rate, <<>>, <<>>, "capture", TRUE)
         ELSE Res([s EXCEPT !.mode = None], IntOf(text),
                  <<Reply("Market Rate (USD) changed", <<StrOf(IntOf(text))>>, "SETTINGS_MENU")>>,
                  <<>>, "capture", FALSE)
    ELSE Res([s EXCEPT !.mode = None], rate,
             <<Reply("Digits only please (e.g. 4500)", <<>>, "SETTINGS_MENU")>>,
             <<>>, "capture", FALSE)

ModeCheckWeather(s, rate, text, env) ==
    LET searching == Reply("Searching city", <<text>>, "UTILS_MENU")
        lookup == Call("get_weather_data", <<text>>, env.weather)
        prompt == <<"Weather", "Give 1 short health tip in Burmese.">>
    IN CASE env.weather = "none" ->
              Res([s EXCEPT !.mode = None], rate,
                  <<searching, Reply("Not found", <<>>, "UTILS_MENU")>>,
                  <<lookup>>, "capture", FALSE)
         [] env.weather = "noaqi" ->
              \* get_aqi_status(None) raises TypeError
              Res(s, rate, <<searching>>, <<lookup>>, "capture", TRUE)
         [] OTHER ->
              Res([s EXCEPT !.mode = None], rate,
                  <<searching,
                    Reply("Weather report", IF env.llm = "ok" THEN <<"Tip">> ELSE <<>>, "UTILS_MENU")>>,
                  <<lookup, Call("llm.invoke", prompt, env.llm)>>, "capture", FALSE)

\* ModeAddTask that also leaves the schedule
ModeAddTaskToMain(s, rate, text, env) ==
    Res([s EXCEPT !.tasks = Append(s.tasks, text), !.mode = None, !.section = "main"], rate,
        <<Reply("Saved.", <<>>, "SCHEDULE_MENU")>>, <<>>, "capture", FALSE)

ModeAddTask(s, rate, text, env) ==
    Res([s EXCEPT !.tasks = Append(s.tasks, text), !.mode = None], rate,
        <<Reply("Saved.", <<>>, "SCHEDULE_MENU")>>, <<>>, "capture", FALSE)

\* ModeRemoveTask without the lower bound of the index test: tasks.pop(-1)
\* removes the last task, and raises IndexError on an empty list
ModeRemoveTaskNoLower(s, rate, text, env) ==
    IF IsDigit(text) /\ IntRaises(text)
    THEN Res(s, rate, <<>>, <<>>, "capture", TRUE)
    ELSE IF IsDigit(text) /\ IntOf(text) <= Len(s.tasks)
         THEN IF IntOf(text) = 0
              THEN IF s.tasks = <<>>
                   THEN Res(s, rate, <<>>, <<>>, "capture", TRUE)
                   ELSE Res([s EXCEPT !.tasks = SubSeq(s.tasks, 1, Len(s.tasks) - 1),
                                      !.mode = None], rate,
                            <<Reply("Removed", <<s.tasks[Len(s.tasks)]>>, "SCHEDULE_MENU")>>,
                            <<>>, "capture", FALSE)
              ELSE Res([s EXCEPT !.tasks = Pop(s.tasks, IntOf(text)), !.mode = None], rate,
                       <<Reply("Removed", <<s.tasks[IntOf(text)]>>, "SCHEDULE_MENU")>>,
                       <<>>, "capture", FALSE)
         ELSE Res([s EXCEPT !.mode = None], rate,
                  <<Reply("Invalid Number", <<>>, "SCHEDULE_MENU")>>, <<>>, "capture", FALSE)

ModeRemoveTask(s, rate, text, env) ==
    IF IsDigit(text) /\ IntRaises(text)
    THEN Res(s, rate, <<>>, <<>>, "capture", TRUE)
    ELSE IF IsDigit(text) /\ 1 <= IntOf(text) /\ IntOf(text) <= Len(s.tasks)
         THEN Res([s EXCEPT !.tasks = Pop(s.tasks, IntOf(text)), !.mode = None], rate,
                  <<Reply("Removed", <<s.tasks[IntOf(text)]>>, "SCHEDULE_MENU")>>,
                  <<>>, "capture", FALSE)
         ELSE Res([s EXCEPT !.mode = None], rate,
                  <<Reply("Invalid Number", <<>>, "SCHEDULE_MENU")>>, <<>>, "capture", FALSE)

ModeDeleteData(s, rate, text, env) ==
    LET res == IF env.db \in {"ok", "empty"} THEN "ok" ELSE "raise"
    IN Res([s EXCEPT !.mode = None], rate,
           <<IF res = "ok" THEN Reply("Deleted", <<text>>, "MAIN_MENU")
                           ELSE Reply("Error: e", <<>>, "-")>>,
           <<Call("pinecone_index.delete", <<text>>, res)>>, "capture", FALSE)

ModeAI(s, rate, text, env) ==
    LET p == call_ai_direct(<<"Task", s.mode, "Text", text>>, env)
    IN Res([s EXCEPT !.mode = None], rate, p.out, p.calls, "capture", FALSE)

\* the chain without its last branch
HandledModesNoAI == {"add_link", "set_market_rate", "check_weather", "add_task",
                     "remove_task", "delete_data"}

\* the modes of the if/elif chain of "2. Action Modes"
HandledModes == {"add_link", "set_market_rate", "check_weather", "add_task",
                 "remove_task", "delete_data"} \cup AIModes

\* --- 2. Action Modes (Waiting for Input)
ActionMode(s, rate, text, env) ==
    CASE s.mode = "add_link" -> ModeAddLink(s, rate, text, env)
      [] s.mode = "set_market_rate" -> ModeSetMarketRate(s, rate, text, env)
      [] s.mode = "check_weather" -> ModeCheckWeather(s, rate, text, env)
      [] s.mode = "add_task" -> ModeAddTask(s, rate, text, env)
      [] s.mode = "remove_task" -> ModeRemoveTask(s, rate, text, env)
      [] s.mode = "delete_data" -> ModeDeleteData(s, rate, text, env)
      [] OTHER -> ModeAI(s, rate, text, env)

\* "\n".join(f"{i+1}. {t}") of the task list, or "No tasks."
TaskStr(tasks) == IF tasks = <<>> THEN <<"No tasks.">> ELSE tasks

\* --- 3. Menu Navigation: the Main Menu labels, matched in every section
MainMenuNav(s, rate, text) ==
    CASE text = "My Brain" ->
           Res([s EXCEPT !.section = "brain"], rate,
               <<Reply("Brain Panel", <<>>, "BRAIN_INLINE")>>, <<>>, "menu", FALSE)
      [] text = "AI Assistant" ->
           Res([s EXCEPT !.section = "ai_assistant"], rate,
               <<Reply("AI Tools", <<>>, "AI_TOOLS_MENU")>>, <<>>, "menu", FALSE)
      [] text = "My Schedule" ->
           Res([s EXCEPT !.section = "schedule"], rate,
               <<Reply("Today's Plan", TaskStr(s.tasks), "SCHEDULE_MENU")>>, <<>>, "menu", FALSE)
      [] OTHER ->
           Res([s EXCEPT !.section = "utils"], rate,
               <<Reply("Utilities", <<>>, "UTILS_MENU")>>, <<>>, "menu", FALSE)

\* the mode a sub-menu label starts, and the prompt sent with it
SubMenuMode(text) ==
    CASE text = "New Reminder" -> [mode |-> "add_task", prompt |-> "Task?"]
      [] text = "Task Done" -> [mode |-> "remove_task", prompt |-> "Number?"]
      [] text = "Weather" -> [mode |-> "check_weather", prompt |-> "City Name? (e.g., Yangon)"]
      [] text = "Set Market Rate" -> [mode |-> "set_market_rate", prompt |-> "Current Rate, enter new rate"]
      [] text = "Email Draft" -> [mode |-> "email", prompt |-> "Topic?"]
      [] text = "Summarize" -> [mode |-> "summarize", prompt |-> "Text?"]
      [] text = "Translate" -> [mode |-> "translate", prompt |-> "Text?"]
      [] OTHER -> [mode |-> "report", prompt |-> "Topic?"]

\* the labels of a section's sub menu that start a capture mode
CaptureLabels(section) ==
    CASE section = "schedule" -> {"New Reminder", "Task Done"}
      [] section = "utils" -> {"Weather"}
      [] section = "settings" -> {"Set Market Rate"}
      [] section = "ai_assistant" -> AILabels
      [] OTHER -> {}

\* the labels a section's "Sub Menus" block matches
SubMenuLabels(section) ==
    CASE section = "schedule" -> ScheduleLabels
      [] section = "utils" -> UtilsLabels
      [] section = "settings" -> SettingsLabels
      [] section = "ai_assistant" -> AILabels
      [] OTHER -> {}

\* --- Sub Menus: the labels of the section read at the top of the handler
SubMenu(s, rate, section, persona, text, env) ==
    CASE text \in CaptureLabels(section) ->
           Res([s EXCEPT !.mode = SubMenuMode(text).mode], rate,
               <<Reply(SubMenuMode(text).prompt,
                       IF text = "Set Market Rate" THEN <<StrOf(rate)>> ELSE <<>>,
                       "BACK_BTN")>>, <<>>, "submenu", FALSE)
      [] text = "List" ->
           Res(s, rate, <<Reply("Tasks:", s.tasks, "SCHEDULE_MENU")>>, <<>>, "submenu", FALSE)
      [] text = "Currency" ->
           Res(s, rate,
               <<IF env.fx = "ok" THEN Reply("Rates", <<StrOf(rate)>>, "UTILS_MENU")
                                  ELSE Reply("Data Error", <<>>, "UTILS_MENU")>>,
               <<Call("get_currency_data", <<>>, env.fx)>>, "submenu", FALSE)
      [] text = "Settings" ->
           Res([s EXCEPT !.section = "settings"], rate,
               <<Reply("Settings", <<>>, "SETTINGS_MENU")>>, <<>>, "submenu", FALSE)
      [] text = "About Secretary" ->
           Res(s, rate, <<Reply("About: Smart Secretary Bot v2.0", <<>>, "UTILS_MENU")>>,
               <<>>, "submenu", FALSE)
      [] text = "Change Persona" ->
           LET new_p == IF persona = "cute" THEN "strict" ELSE "cute"
           IN Res([s EXCEPT !.persona = new_p], rate,
                  <<Reply("Persona", <<new_p>>, "SETTINGS_MENU")>>, <<>>, "submenu", FALSE)
      [] OTHER ->
           \* "Clear Memory"
           Res([s EXCEPT !.tasks = <<>>], rate,
               <<Reply("Cleared.", <<>>, "SETTINGS_MENU")>>, <<>>, "submenu", FALSE)

\* RagChat with a prompt that leaves out the context block
RagChatNoContext(s, rate, text, env) ==
    LET docs == IF env.db = "ok" THEN Snippets ELSE <<>>
        prompt == <<"Q:", text, "Answer in Burmese:">>
        search == [Call("vector_store.similarity_search", <<text>>,
                        IF env.db = "empty" THEN "ok" ELSE env.db) EXCEPT !.ret = docs]
    IN CASE env.db = "down" ->
              Res(s, rate, <<Reply("DB Error", <<>>, "-")>>, <<>>, "rag", FALSE)
         [] env.db = "raise" ->
              Res(s, rate, <<Reply("Error: e", <<>>, "-")>>, <<search>>, "rag", FALSE)
         [] env.llm = "raise" ->
              Res(s, rate, <<Reply("Error: e", <<>>, "-")>>,
                  <<search, Call("llm.invoke", prompt, "raise")>>, "rag", FALSE)
         [] OTHER ->
              Res(s, rate, <<Reply("response.content", prompt, "-")>>,
                  <<search, Call("llm.invoke", prompt, "ok")>>, "rag", FALSE)

\* --- Default RAG Chat
RagChat(s, rate, text, env) ==
    LET docs == IF env.db = "ok" THEN Snippets ELSE <<>>
        prompt == <<"Context:">> \o docs \o <<"Q:", text, "Answer in Burmese:">>
        search == [Call("vector_store.similarity_search", <<text>>,
                        IF env.db = "empty" THEN "ok" ELSE env.db) EXCEPT !.ret = docs]
    IN CASE env.db = "down" ->
              \* "if not vector_store": nothing is called
              Res(s, rate, <<Reply("DB Error", <<>>, "-")>>, <<>>, "rag", FALSE)
         [] env.db = "raise" ->
              Res(s, rate, <<Reply("Error: e", <<>>, "-")>>, <<search>>, "rag", FALSE)
         [] env.llm = "raise" ->
              Res(s, rate, <<Reply("Error: e", <<>>, "-")>>,
                  <<search, Call("llm.invoke", prompt, "raise")>>, "rag", FALSE)
         [] OTHER ->
              Res(s, rate, <<Reply("response.content", prompt, "-")>>,
                  <<search, Call("llm.invoke", prompt, "ok")>>, "rag", FALSE)

\* Fallback that also moves the session to the menu whose keyboard it shows
FallbackToMain(s, rate) ==
    Res([s EXCEPT !.section = "main"], rate,
        <<Reply("Please select a menu option.", <<>>, "MAIN_MENU")>>, <<>>, "fallback", FALSE)

\* --- Fallback
Fallback(s, rate) ==
    Res(s, rate, <<Reply("Please select a menu option.", <<>>, "MAIN_MENU")>>,
        <<>>, "fallback", FALSE)

\* the try block with the menu labels matched before the action modes
TryBodyMenuFirst(s, rate, text, env) ==
    LET user_mode == s.mode
        section == GetSection(s)
        persona == GetPersona(s)
    IN CASE text \in BackTokens -> BackNav(s, rate, section)
         [] text \in MainLabels -> MainMenuNav(s, rate, text)
         [] user_mode \in HandledModes -> ActionMode(s, rate, text, env)
         [] text \in SubMenuLabels(section) -> SubMenu(s, rate, section, persona, text, env)
         [] section = "ai_assistant" /\ user_mode = None -> RagChat(s, rate, text, env)
         [] OTHER -> Fallback(s, rate)

\* the body of the try block of handle_message
TryBody(s, rate, text, env) ==
    LET user_mode == s.mode
        section == GetSection(s)
        persona == GetPersona(s)
    IN CASE text \in BackTokens -> BackNav(s, rate, section)
         [] user_mode \in HandledModes -> ActionMode(s, rate, text, env)
         [] text \in MainLabels -> MainMenuNav(s, rate, text)
         [] text \in SubMenuLabels(section) -> SubMenu(s, rate, section, persona, text, env)
         [] section = "ai_assistant" /\ user_mode = None -> RagChat(s, rate, text, env)
         [] OTHER -> Fallback(s, rate)

\* the except block without the section reset
GlobalHandlerNoReset(r) ==
    [r EXCEPT !.out = Append(r.out, Reply("An error occurred. Resetting...", <<>>, "MAIN_MENU")),
              !.s = [r.s EXCEPT !.mode = None]]

\* the except block of handle_message: one more reply, then the reset
GlobalHandler(r) ==
    [r EXCEPT !.out = Append(r.out, Reply("An error occurred. Resetting...", <<>>, "MAIN_MENU")),
              !.s = [r.s EXCEPT !.section = "main", !.mode = None]]

\* handle_message as a function of the session, the market rate, the text and
\* the outcomes of the external services; exc tells whether the except block ran
handle_message(s, rate, text, env) ==
    LET r == TryBody(s, rate, text, env)
    IN IF r.exc THEN GlobalHandler(r) ELSE r

\* ------------------------------------------------------------------------
\* The other handlers
\* ------------------------------------------------------------------------

\* start that sets the persona whether or not one is stored
startResetPersona(s, rate) ==
    Res([s EXCEPT !.section = "main", !.mode = None, !.persona = "cute"],
        rate, <<Reply("Greeting", <<>>, "MAIN_MENU")>>, <<>>, "start", FALSE)

\* /start
start(s, rate) ==
    Res([s EXCEPT !.section = "main", !.mode = None,
                  !.persona = IF s.persona = NoKey THEN "cute" ELSE s.persona],
        rate, <<Reply("Greeting", <<>>, "MAIN_MENU")>>, <<>>, "start", FALSE)

CallbackData == {"add_doc", "add_link", "del_data", "list_mem"}

\* handle_callback_query whose two mode buttons also enter section brain
handle_callback_queryToBrain(s, rate, data, env) ==
    CASE data = "add_doc" ->
           Res(s, rate, <<Edit("Send PDF/Word", <<>>)>>, <<>>, "callback", FALSE)
      [] data = "add_link" ->
           Res([s EXCEPT !.mode = "add_link", !.section = "brain"], rate,
               <<Edit("Send link", <<>>)>>, <<>>, "callback", FALSE)
      [] data = "del_data" ->
           Res([s EXCEPT !.mode = "delete_data", !.section = "brain"], rate,
               <<Edit("Send source path", <<>>)>>, <<>>, "callback", FALSE)
      [] OTHER ->
           LET res == IF env.db \in {"ok", "empty"} THEN "ok" ELSE "raise"
           IN Res(s, rate, IF res = "ok" THEN <<Edit("Stats", <<>>)>> ELSE <<>>,
                  <<Call("pinecone_index.describe_index_stats", <<>>, res)>>,
                  "callback", res = "raise")

\* handle_callback_query has no try block: when describe_index_stats raises,
\* the handler ends without having edited the message
handle_callback_query(s, rate, data, env) ==
    CASE data = "add_doc" ->
           Res(s, rate, <<Edit("Send PDF/Word", <<>>)>>, <<>>, "callback", FALSE)
      [] data = "add_link" ->
           Res([s EXCEPT !.mode = "add_link"], rate, <<Edit("Send link", <<>>)>>,
               <<>>, "callback", FALSE)
      [] data = "del_data" ->
           Res([s EXCEPT !.mode = "delete_data"], rate, <<Edit("Send source path", <<>>)>>,
               <<>>, "callback", FALSE)
      [] OTHER ->
           LET res == IF env.db \in {"ok", "empty"} THEN "ok" ELSE "raise"
           IN Res(s, rate, IF res = "ok" THEN <<Edit("Stats", <<>>)>> ELSE <<>>,
                  <<Call("pinecone_index.describe_index_stats", <<>>, res)>>,
                  "callback", res = "raise")

FileNames == {"a.pdf"}

\* handle_document: status message, load and store, then the final edit
handle_document(s, rate, fname, env) ==
    LET res == IF env.db \in {"ok", "empty"} THEN "ok" ELSE "raise"
    IN Res(s, rate,
           <<Reply("Processing File...", <<>>, "-"),
             IF res = "ok" THEN Edit("Saved", <<fname>>) ELSE Edit("Error: e", <<>>)>>,
           <<Call("vector_store.add_documents", <<fname>>, res)>>, "document", FALSE)

\* ------------------------------------------------------------------------
\* State machine
\* ------------------------------------------------------------------------

\* the event handled last, with the session as its handler found it
Event(c, kind, text, s, r) ==
    [chat |-> c, kind |-> kind, text |-> text, mode |-> s.mode, section |-> GetSection(s),
     path |-> r.path, exc |-> r.exc]

NoEvent ==
    [chat |-> "-", kind |-> "none", text |-> "-", mode |-> None, section |-> "main",
     path |-> "-", exc |-> FALSE]

Init ==
    /\ ud = [c \in Chats |-> EmptyUserData]
    /\ MARKET_RATE_USD = DefaultMarketRate
    /\ last = NoEvent
    /\ out = <<>>
    /\ calls = <<>>
    /\ prevTok = "-"
    /\ queue = <<>>
    /\ running = {}

\* what one handler run records besides its writes to user_data
Effect(c, kind, text, r) ==
    /\ MARKET_RATE_USD' = r.rate
    /\ last' = Event(c, kind, text, ud[c], r)
    /\ out' = r.out
    /\ calls' = r.calls
    /\ prevTok' = IF last.kind = "text" /\ last.chat = c /\ last.text \in BackTokens
                  THEN last.text ELSE "-"

\* Commit with one user_data dictionary shared by all chats
CommitShared(c, kind, text, r) ==
    /\ ud' = [d \in Chats |-> r.s]
    /\ Effect(c, kind, text, r)
    /\ UNCHANGED <<queue, running>>

\* the effect on the state of a handler that runs from its first to its last
\* statement in one step
Commit(c, kind, text, r) ==
    /\ ud' = [ud EXCEPT ![c] = r.s]
    /\ Effect(c, kind, text, r)
    /\ UNCHANGED <<queue, running>>

\* the field of Envs that decides the outcome of a service
EnvField(svc) ==
    CASE svc = "llm.invoke" -> "llm"
      [] svc = "get_weather_data" -> "weather"
      [] svc = "get_currency_data" -> "fx"
      [] OTHER -> "db"

\* the services a handler run called
Used(r) == {EnvField(r.calls[i].svc) : i \in 1..Len(r.calls)}

\* service outcomes to try for a handler run, given the run r0 in which every
\* service returned: outcomes are varied only for the services that r0 called
EnvsFor(r0) ==
    IF r0.calls = <<>> THEN {OkEnv}
    ELSE {env \in Envs : \A f \in {"llm", "db", "weather", "fx"} : f \notin Used(r0) => env[f] = "ok"}

\* texts the model sends to a session with a given mode and section. With a
\* mode pending: the back tokens, a menu label, and texts for each case of the
\* mode's validation. With no mode pending: the back tokens, the main menu
\* labels, the labels of the section's own sub menu, three labels of other
\* sub menus and a free text.
Inputs(mode, section) ==
    LET label == {"My Schedule"}
        foreign == {"Task Done", "Settings", "Email Draft"}
    IN CASE mode = None ->
              BackTokens \cup MainLabels \cup SubMenuLabels(section) \cup foreign \cup {"abc"}
         [] mode = "add_link" -> BackTokens \cup label \cup {"http://a.b", "https://a.b", "httpx"}
         [] mode = "set_market_rate" -> BackTokens \cup label \cup {"4500", "0", "^2", "abc"}
         [] mode = "check_weather" -> BackTokens \cup label \cup {"Yangon"}
         [] mode = "add_task" -> BackTokens \cup {"Buy milk", "Task Done"}
         [] mode = "remove_task" -> BackTokens \cup label \cup {"0", "1", "2", "3", "^2"}
         [] OTHER -> BackTokens \cup label \cup {"abc"}

Start(c) ==
    LET r == start(ud[c], MARKET_RATE_USD)
    IN c \in Chats /\ Commit(c, "start", "/start", r)

HandleMessage(c, text) ==
    /\ text \in Inputs(ud[c].mode, GetSection(ud[c]))
    /\ (ud[c].mode = "add_task" /\ text \notin BackTokens) => Len(ud[c].tasks) < MaxTasks
    /\ \E env \in EnvsFor(handle_message(ud[c], MARKET_RATE_USD, text, OkEnv)) :
          LET r == handle_message(ud[c], MARKET_RATE_USD, text, env)
          IN Commit(c, "text", text, r)

HandleCallbackQuery(c, data) ==
    \E env \in EnvsFor(handle_callback_query(ud[c], MARKET_RATE_USD, data, OkEnv)) :
       LET r == handle_callback_query(ud[c], MARKET_RATE_USD, data, env)
       IN Commit(c, "callback", data, r)

HandleDocument(c, fname) ==
    \E env \in EnvsFor(handle_document(ud[c], MARKET_RATE_USD, fname, OkEnv)) :
       LET r == handle_document(ud[c], MARKET_RATE_USD, fname, env)
       IN Commit(c, "document", fname, r)

Next ==
    \E c \in ActiveChats :
       \/ Start(c)
       \/ \E text \in Texts : HandleMessage(c, text)
       \/ \E data \in CallbackData : HandleCallbackQuery(c, data)
       \/ \E fname \in FileNames : HandleDocument(c, fname)

Spec == Init /\ [][Next]_vars

\* texts sent when two chats are active: the way into the settings and into
\* the schedule, a reminder, and a rate on which int() raises
ChatTexts == {"Utilities", "Settings", "Set Market Rate", "^2",
              "My Schedule", "New Reminder", "Buy milk"}

\* the handlers with every chat sending events
NextChats ==
    \E c \in Chats :
       \/ Start(c)
       \/ \E text \in ChatTexts : HandleMessage(c, text)
       \/ HandleCallbackQuery(c, "add_link")

SpecChats == Init /\ [][NextChats]_vars

\* --- the handlers as the dispatcher runs them: an update waits in the
\* queue of the polling loop, a handler begins by reading user_data, awaits
\* its service calls and replies, and finishes with its writes.

\* updates that arrive: the two buttons that set a mode, texts for the modes
\* they set, a back token, /start and a document
QueueEvents ==
    {[kind |-> "callback", text |-> "add_link"], [kind |-> "callback", text |-> "del_data"],
     [kind |-> "text", text |-> "http://a.b"], [kind |-> "text", text |-> "abc"],
     [kind |-> "text", text |-> "Back"], [kind |-> "start", text |-> "/start"],
     [kind |-> "document", text |-> "a.pdf"]}

\* the handler registered for a kind of update
Run(kind, text, s, rate, env) ==
    CASE kind = "start" -> start(s, rate)
      [] kind = "callback" -> handle_callback_query(s, rate, text, env)
      [] kind = "document" -> handle_document(s, rate, text, env)
      [] OTHER -> handle_message(s, rate, text, env)

\* an update of chat c is fetched and waits for the dispatcher
Arrive(c, ev) ==
    /\ Len(queue) < MaxQueue
    /\ queue' = Append(queue, [chat |-> c, kind |-> ev.kind, text |-> ev.text])
    /\ UNCHANGED <<ud, MARKET_RATE_USD, last, out, calls, prevTok, running>>

\* a dispatcher that starts the handler of the next update while another
\* handler is still awaiting
BeginConcurrent(c) ==
    /\ queue # <<>> /\ Head(queue).chat = c
    /\ running' = running \cup {[ev |-> Head(queue), snap |-> ud[c]]}
    /\ queue' = Tail(queue)
    /\ UNCHANGED <<ud, MARKET_RATE_USD, last, out, calls, prevTok>>

\* the dispatcher of the Application built without concurrent_updates and
\* with blocking handlers: the next update is taken, in arrival order, only
\* when no handler is running; the handler reads user_data as it begins
Begin(c) ==
    /\ running = {}
    /\ queue # <<>> /\ Head(queue).chat = c
    /\ running' = running \cup {[ev |-> Head(queue), snap |-> ud[c]]}
    /\ queue' = Tail(queue)
    /\ UNCHANGED <<ud, MARKET_RATE_USD, last, out, calls, prevTok>>

\* a running handler returns: its service calls have had their outcomes and
\* its writes, computed from what it read when it began, reach user_data
Finish(h) ==
    /\ h \in running
    /\ \E env \in EnvsFor(Run(h.ev.kind, h.ev.text, h.snap, MARKET_RATE_USD, OkEnv)) :
          LET r == Run(h.ev.kind, h.ev.text, h.snap, MARKET_RATE_USD, env)
          IN /\ ud' = [ud EXCEPT ![h.ev.chat] = r.s]
             /\ Effect(h.ev.chat, h.ev.kind, h.ev.text, r)
    /\ running' = running \ {h}
    /\ UNCHANGED queue

NextQueue ==
    \/ \E c \in ActiveChats : \E ev \in QueueEvents : Arrive(c, ev)
    \/ \E c \in ActiveChats : Begin(c)
    \/ \E h \in running : Finish(h)

SpecQueue == Init /\ [][NextQueue]_vars

\* ------------------------------------------------------------------------
\* Vocabulary of the properties
\* ------------------------------------------------------------------------

\* the step just taken handled a text message of chat c
TextStep(c) == last'.kind = "text" /\ last'.chat = c

\* the state was produced by handling a text message
AfterText == last.kind = "text"

SearchRaised(cs) ==
    \E i \in 1..Len(cs) : cs[i].svc = "vector_store.similarity_search" /\ cs[i].res = "raise"

Searched(cs) == \E i \in 1..Len(cs) : cs[i].svc = "vector_store.similarity_search"

AnyRaised(cs) == \E i \in 1..Len(cs) : cs[i].res = "raise"

ErrorReply(m) == m.text \in {"Error: e", "An error occurred. Resetting..."}

ValidationError(m) == m.text \in {"Invalid link", "Invalid Number", "Digits only please (e.g. 4500)"}

\* texts of decimal integers
IsDecimal(text) == text \in {"0", "1", "2", "3", "4500"}

\* the validation rules of the completion table
Valid(mode, text, tasks) ==
    CASE mode = "add_link" -> text \in {"http://a.b", "https://a.b"}
      [] mode = "remove_task" -> IsDecimal(text) /\ 1 <= IntOf(text) /\ IntOf(text) <= Len(tasks)
      [] mode = "set_market_rate" -> IsDecimal(text) /\ IntOf(text) > 0
      [] OTHER -> TRUE

ValidatedModes == {"add_link", "remove_task", "set_market_rate"}

\* the static parent map
Parent(section) ==
    CASE section = "settings" -> "utils"
      [] section = "utils" -> "main"
      [] section = "schedule" -> "main"
      [] section = "ai_assistant" -> "main"
      [] section = "brain" -> "main"
      [] OTHER -> "main"

\* replies that open a menu or ask for a captured value
NavigationTexts == {"Brain Panel", "AI Tools", "Today's Plan", "Utilities", "Settings",
                    "Task?", "Number?", "City Name? (e.g., Yangon)",
                    "Current Rate, enter new rate", "Topic?", "Text?"}

\* ------------------------------------------------------------------------
\* Properties
\* ------------------------------------------------------------------------

\* C1: when a free text is handled in section ai_assistant with no mode and
\* the retrieval call raises, the session ends in section main with mode None
\* and exactly one error reply was sent.
C1_RetrievalFailureResets ==
    (/\ AfterText
     /\ last.section = "ai_assistant" /\ last.mode = None
     /\ last.text \notin BackTokens \cup MenuLabels
     /\ SearchRaised(calls))
    => (/\ GetSection(ud[last.chat]) = "main"
        /\ ud[last.chat].mode = None
        /\ Len(out) = 1 /\ ErrorReply(out[1]))

\* C2: when an external service raises during the completion of a capture
\* mode (chat service for the AI modes, ingestion for add_link and
\* delete_data), the session ends in (main, None) and a failure reply is sent.
C2_CaptureFailureResets ==
    (/\ AfterText
     /\ last.mode \in AIModes \cup {"add_link", "delete_data"}
     /\ last.text \notin BackTokens
     /\ AnyRaised(calls))
    => (/\ GetSection(ud[last.chat]) = "main"
        /\ ud[last.chat].mode = None
        /\ \E i \in 1..Len(out) : ErrorReply(out[i]))

\* C3: no reachable session is stuck: from every reachable state two back
\* tokens in a row end in section main with mode None, the first one already
\* clears the mode; and whenever two back tokens were handled in a row the
\* session is in (main, None).
C3_BackTwiceReachesMain ==
    /\ \A c \in Chats : \A t1 \in BackTokens : \A t2 \in BackTokens :
          LET r1 == handle_message(ud[c], MARKET_RATE_USD, t1, OkEnv)
              r2 == handle_message(r1.s, r1.rate, t2, OkEnv)
          IN r1.s.mode = None /\ r2.s.mode = None /\ GetSection(r2.s) = "main"
    /\ (AfterText /\ last.text \in BackTokens /\ prevTok \in BackTokens)
          => (GetSection(ud[last.chat]) = "main" /\ ud[last.chat].mode = None)

\* two back tokens were handled in a row, the first of them in settings
C3_Witness ==
    /\ AfterText /\ last.text \in BackTokens /\ prevTok \in BackTokens
    /\ last.section = "utils"
    /\ GetSection(ud[last.chat]) = "main"

\* C4: in a mode with a validation rule, a text that fails the rule leaves
\* the mode pending and is answered with a validation error; a valid text
\* clears the mode.
C4_ValidationKeepsMode ==
    [][\A c \in Chats :
          (TextStep(c) /\ ud[c].mode \in ValidatedModes /\ last'.text \notin BackTokens)
          => IF Valid(ud[c].mode, last'.text, ud[c].tasks)
             THEN ud'[c].mode = None
             ELSE /\ ud'[c].mode = ud[c].mode
                  /\ \E i \in 1..Len(out') : ValidationError(out'[i])]_vars

\* C5: a back token is handled first, also while a mode is pending: the
\* text is not consumed (tasks, persona, market rate untouched, no service
\* called), the mode becomes None and the section becomes the parent of the
\* current section.
C5_BackFirst ==
    [][\A c \in Chats :
          (TextStep(c) /\ last'.text \in BackTokens)
          => /\ ud'[c].mode = None
             /\ GetSection(ud'[c]) = Parent(GetSection(ud[c]))
             /\ ud'[c].tasks = ud[c].tasks
             /\ ud'[c].persona = ud[c].persona
             /\ MARKET_RATE_USD' = MARKET_RATE_USD
             /\ calls' = <<>>]_vars

\* a back token was handled in settings while a mode was pending
C5_Witness ==
    /\ AfterText /\ last.text \in BackTokens
    /\ last.mode # None /\ last.section = "settings"
    /\ GetSection(ud[last.chat]) = "utils"

\* C6: with a mode pending, a text that is not a back token is consumed by
\* the completion of that mode, also when it is a menu label: no menu is
\* opened, no mode is started, no retrieval is made, and the section stays
\* (or is reset to main by the except block).
C6_ModeConsumesText ==
    [][\A c \in Chats :
          (TextStep(c) /\ ud[c].mode # None /\ last'.text \notin BackTokens)
          => /\ last'.path = "capture"
             /\ ud'[c].mode = None
             /\ ~Searched(calls')
             /\ \A i \in 1..Len(out') : out'[i].text \notin NavigationTexts
             /\ \/ GetSection(ud'[c]) = GetSection(ud[c])
                \/ last'.exc /\ GetSection(ud'[c]) = "main"]_vars

\* a menu label was handled while a mode was pending
C6_Witness ==
    /\ AfterText /\ last.mode # None /\ last.text \in MenuLabels
    /\ last.path = "capture"

\* C7: the section of every session is one of the six sections; it is main
\* for an untouched session and after the except block of handle_message ran.
C7_SectionValid ==
    \A c \in Chats :
       /\ GetSection(ud[c]) \in Sections
       /\ ud[c].section # None
       /\ ud[c] = EmptyUserData => GetSection(ud[c]) = "main"
       /\ (AfterText /\ last.exc /\ last.chat = c) => GetSection(ud[c]) = "main"

\* the except block ran for a message handled outside main
C7_Witness ==
    /\ AfterText /\ last.exc /\ last.section # "main"
    /\ GetSection(ud[last.chat]) = "main"

\* the modes a menu entry or an inline button can start
SettableModes ==
    {SubMenuMode(l).mode : l \in UNION {CaptureLabels(sec) : sec \in Sections}}
    \cup ({handle_callback_query(EmptyUserData, DefaultMarketRate, d, OkEnv).s.mode :
             d \in CallbackData} \ {None})

\* C8: the mode of every session is None or a mode with a completion handler,
\* every mode a menu entry or inline button starts has one, and a text handled
\* with a mode pending never reaches menu matching or the free chat.
C8_ModeRegistered ==
    /\ \A c \in Chats : ud[c].mode = None \/ ud[c].mode \in HandledModes
    /\ SettableModes \subseteq HandledModes
    /\ (AfterText /\ last.mode # None /\ last.text \notin BackTokens)
          => last.path \notin {"menu", "submenu", "rag", "fallback"}

\* a mode started from a sub menu was completed
C8_Witness ==
    /\ AfterText /\ last.mode \in AIModes /\ last.text \notin BackTokens
    /\ last.path = "capture"
    /\ ud[last.chat].mode = None

\* C9 as stated: from any reachable state, "Main Menu" sent twice in a row
\* leaves the session in main after the first and after the second send, with
\* identical replies.
C9_MainMenuTwice ==
    [][\A c \in Chats :
          (/\ AfterText /\ last.chat = c /\ last.text = "Main Menu"
           /\ TextStep(c) /\ last'.text = "Main Menu")
          => /\ GetSection(ud[c]) = "main"
             /\ GetSection(ud'[c]) = "main"
             /\ out' = out]_vars

\* C9 amended: the same, from any reachable state whose section is not
\* settings.
C9_MainMenuTwiceOutsideSettings ==
    [][\A c \in Chats :
          (/\ AfterText /\ last.chat = c /\ last.text = "Main Menu"
           /\ last.section # "settings"
           /\ TextStep(c) /\ last'.text = "Main Menu")
          => /\ GetSection(ud[c]) = "main"
             /\ GetSection(ud'[c]) = "main"
             /\ out' = out]_vars

\* "Main Menu" was handled twice in a row, the first time in the schedule
C9_Witness ==
    /\ AfterText /\ last.text = "Main Menu" /\ prevTok = "Main Menu"
    /\ last.section = "main"
    /\ GetSection(ud[last.chat]) = "main"
    /\ out = <<Reply("Main Menu", <<>>, "MAIN_MENU")>>

\* C10: in the schedule with tasks T, "New Reminder" starts add_task, a text
\* x then gives tasks T followed by x in section schedule; "Task Done" starts
\* remove_task, and the number len(T)+1 then gives T again.
C10_ReminderRoundTrip ==
    [][\A c \in Chats :
          LET s == ud[c]
              t == ud'[c]
              text == last'.text
          IN /\ (TextStep(c) /\ GetSection(s) = "schedule" /\ s.mode = None
                   /\ text \in {"New Reminder", "Task Done"})
                => /\ t.mode = (IF text = "New Reminder" THEN "add_task" ELSE "remove_task")
                   /\ t.tasks = s.tasks /\ GetSection(t) = "schedule"
             /\ (TextStep(c) /\ s.mode = "add_task" /\ text \notin BackTokens)
                => /\ t.tasks = s.tasks \o <<text>>
                   /\ GetSection(s) = "schedule" /\ GetSection(t) = "schedule"
                   /\ t.mode = None
             /\ (TextStep(c) /\ s.mode = "remove_task" /\ Len(s.tasks) >= 1
                   /\ text = StrOf(Len(s.tasks)))
                => /\ t.tasks = SubSeq(s.tasks, 1, Len(s.tasks) - 1)
                   /\ GetSection(t) = "schedule"
                   /\ t.mode = None]_vars

\* the number len(T)+1 was sent in remove_task and the reminder added last
\* was removed, leaving a non-empty T
C10_Witness ==
    /\ AfterText /\ last.mode = "remove_task"
    /\ Len(ud[last.chat].tasks) >= 1
    /\ last.text = StrOf(Len(ud[last.chat].tasks) + 1)
    /\ Len(out) = 1 /\ out[1].text = "Removed"
    /\ GetSection(ud[last.chat]) = "schedule"

\* the elements of a sequence
Range(seq) == {seq[i] : i \in 1..Len(seq)}

\* C11: in a fresh session "AI Assistant" sets the section to ai_assistant;
\* a text that is no menu label, handled there with no mode pending, makes
\* one retrieval call with that text and, when it returns, one generate call
\* whose prompt contains every returned snippet and the question; when that
\* returns, the only reply is its return value; the section stays
\* ai_assistant and the mode None.
C11_RagScenario ==
    [][\A c \in Chats :
          LET s == ud[c]
              t == ud'[c]
              text == last'.text
          IN /\ (TextStep(c) /\ s = EmptyUserData /\ text = "AI Assistant")
                => (GetSection(t) = "ai_assistant" /\ t.mode = None)
             /\ (/\ TextStep(c) /\ GetSection(s) = "ai_assistant" /\ s.mode = None
                 /\ text \notin BackTokens \cup MenuLabels
                 /\ calls' # <<>>)
                => /\ GetSection(t) = "ai_assistant" /\ t.mode = None
                   /\ calls'[1].svc = "vector_store.similarity_search"
                   /\ calls'[1].arg = <<text>>
                   /\ \A i \in 2..Len(calls') : calls'[i].svc = "llm.invoke"
                   /\ calls'[1].res = "ok"
                      => /\ Len(calls') = 2
                         /\ Range(calls'[1].ret) \cup {text} \subseteq Range(calls'[2].arg)
                         /\ calls'[2].res = "ok"
                            => out' = <<Reply("response.content", calls'[2].arg, "-")>>]_vars

\* a free text was answered from two retrieved snippets
C11_Witness ==
    /\ AfterText /\ last.path = "rag" /\ last.text = "abc"
    /\ Len(calls) = 2 /\ calls[1].ret = Snippets /\ calls[2].res = "ok"
    /\ Len(out) = 1 /\ out[1].text = "response.content"
    /\ GetSection(ud[last.chat]) = "ai_assistant"

\* number of messages sent with reply_text
NumReplies(o) == Cardinality({i \in 1..Len(o) : o[i].op = "reply_text"})

\* C12: every run of handle_message sends exactly one reply.
C12_ExactlyOneReply ==
    AfterText => NumReplies(out) = 1

\* the labels on the keyboard of a section
SectionMenu(section) == Range(KeyboardButtons(SectionKeyboard(section)))

\* C13: a text that is no back token, handled with no mode pending in a
\* section other than ai_assistant, and that is neither a main menu label nor
\* a label of the section's own menu, is answered with the "select a menu
\* option" reply and leaves section, mode, persona and tasks (and the market
\* rate) as they were.
C13_FallbackFrame ==
    [][\A c \in Chats :
          (/\ TextStep(c) /\ last'.text \notin BackTokens
           /\ ud[c].mode = None
           /\ GetSection(ud[c]) # "ai_assistant"
           /\ last'.text \notin MainLabels \cup SectionMenu(GetSection(ud[c])))
          => /\ out' = <<Reply("Please select a menu option.", <<>>, "MAIN_MENU")>>
             /\ ud'[c] = ud[c]
             /\ MARKET_RATE_USD' = MARKET_RATE_USD
             /\ calls' = <<>>]_vars

\* the label of another section's menu was answered by the fallback in the
\* settings
C13_Witness ==
    /\ AfterText /\ last.path = "fallback"
    /\ last.section = "settings" /\ last.text = "Task Done"
    /\ GetSection(ud[last.chat]) = "settings"

\* the next section of the completion table
CompletionSection(mode) ==
    CASE mode = "add_task" -> "schedule"
      [] mode = "remove_task" -> "schedule"
      [] mode = "check_weather" -> "utils"
      [] OTHER -> "settings"

TableModes == {"add_task", "remove_task", "check_weather", "set_market_rate"}

\* C16: when a text that is no back token is handled in mode add_task,
\* remove_task, check_weather or set_market_rate and the handler finishes
\* without an exception, the session is in the section the completion table
\* names for the mode: schedule, schedule, utils, settings.
C16_CompletionSection ==
    [][\A c \in Chats :
          (/\ TextStep(c) /\ ud[c].mode \in TableModes
           /\ last'.text \notin BackTokens /\ ~last'.exc)
          => GetSection(ud'[c]) = CompletionSection(ud[c].mode)]_vars

\* a reminder was captured and the session is in the schedule
C16_Witness ==
    /\ AfterText /\ last.mode = "add_task" /\ last.text = "Buy milk" /\ ~last.exc
    /\ ud[last.chat].tasks # <<>>
    /\ GetSection(ud[last.chat]) = "schedule"

\* the last handler called the service svc
Called(svc) == \E i \in 1..Len(calls) : calls[i].svc = svc

\* C17: after a text that is no back token was handled in mode delete_data
\* (the delete by source was invoked), the session is in section main.
C17_DeleteReturnsToMain ==
    (/\ AfterText /\ last.mode = "delete_data" /\ last.text \notin BackTokens
     /\ Called("pinecone_index.delete"))
    => GetSection(ud[last.chat]) = "main"

\* C18: in mode add_link the ingestion is invoked exactly for the texts that
\* start with "http://" or "https://"; every other text gets a validation
\* error and no ingestion call.
C18_IngestIffUrl ==
    (AfterText /\ last.mode = "add_link" /\ last.text \notin BackTokens)
    => /\ Called("vector_store.add_documents") <=> last.text \in {"http://a.b", "https://a.b"}
       /\ last.text \notin {"http://a.b", "https://a.b"}
          => (calls = <<>> /\ \E i \in 1..Len(out) : ValidationError(out[i]))

\* C19: the market rate is a positive integer in every state, and a step
\* changes it only when a text that parses as a positive integer is handled
\* in mode set_market_rate.
C19_RatePositive ==
    [][/\ MARKET_RATE_USD' \in Nat \ {0}
       /\ MARKET_RATE_USD' # MARKET_RATE_USD
          => /\ last'.kind = "text" /\ ud[last'.chat].mode = "set_market_rate"
             /\ IsDecimal(last'.text) /\ IntOf(last'.text) > 0]_vars

\* C20: in mode remove_task a text that parses as an integer i with
\* 1 <= i <= len(tasks) removes exactly tasks[i-1] and keeps the other tasks
\* in their order; any other text that is no back token leaves tasks
\* unchanged and is answered with an error reply.
C20_RemoveExactlyOne ==
    [][\A c \in Chats :
          LET tasks == ud[c].tasks
              after == ud'[c].tasks
              text == last'.text
          IN (TextStep(c) /\ ud[c].mode = "remove_task" /\ text \notin BackTokens)
             => IF IsDecimal(text) /\ 1 <= IntOf(text) /\ IntOf(text) <= Len(tasks)
                THEN /\ Len(after) = Len(tasks) - 1
                     /\ \A j \in 1..Len(after) :
                           after[j] = IF j < IntOf(text) THEN tasks[j] ELSE tasks[j + 1]
                ELSE /\ after = tasks
                     /\ \E i \in 1..Len(out') :
                           ErrorReply(out'[i]) \/ ValidationError(out'[i])]_vars

\* the first of two different tasks was removed
C20_Witness ==
    /\ AfterText /\ last.mode = "remove_task" /\ last.text = "1"
    /\ out = <<Reply("Removed", <<"Buy milk">>, "SCHEDULE_MENU")>>
    /\ ud[last.chat].tasks = <<"Task Done">>

\* C15: handling an event of one chat, the runs that end in the except
\* block included, leaves section, mode, persona and tasks of every other
\* chat unchanged.
C15_SessionsIndependent ==
    [][\A d \in Chats : d # last'.chat => ud'[d] = ud[d]]_vars

\* chat c1 was reset by the except block while chat c2 waits for a rate in
\* the settings with a reminder stored
C15_Witness ==
    /\ last.chat = "c1" /\ last.kind = "text" /\ last.exc
    /\ GetSection(ud["c1"]) = "main" /\ ud["c1"].mode = None
    /\ GetSection(ud["c2"]) = "settings" /\ ud["c2"].mode = "set_market_rate"
    /\ ud["c2"].tasks = <<"Buy milk">>

\* C14: the updates of a session are handled one at a time and in arrival
\* order: at most one handler is running, a handler begins only with the
\* update at the head of the queue, and what a running handler read from
\* user_data is still what user_data holds, so its final write of mode = None
\* never erases a mode set after it began and it never acts on a stale mode.
C14_OneAtATime ==
    [][/\ Cardinality(running') <= 1
       /\ \A h \in running' : h.snap = ud'[h.ev.chat]
       /\ \A h \in running' \ running :
             queue # <<>> /\ h.ev = Head(queue) /\ queue' = Tail(queue)]_vars

\* the handler of a link text is running in mode add_link while the press of
\* the delete button waits in the queue
C14_Witness ==
    /\ \E h \in running :
          h.ev.kind = "text" /\ h.ev.text = "http://a.b" /\ h.snap.mode = "add_link"
    /\ queue # <<>> /\ Head(queue).kind = "callback" /\ Head(queue).text = "del_data"

\* C21: with no mode pending, a menu label that is not on the menu of the
\* session's section causes no navigation and no mode change.
C21_OnlyOwnMenu ==
    [][\A c \in Chats :
          (/\ TextStep(c) /\ ud[c].mode = None
           /\ last'.text \in MenuLabels
           /\ last'.text \notin SectionMenu(GetSection(ud[c])))
          => /\ GetSection(ud'[c]) = GetSection(ud[c])
             /\ ud'[c].mode = None]_vars

\* the texts whose handling enters a section other than main
EnteringLabels == MainLabels \cup {"Settings"}

\* C22: the keyboard sent with the reply that enters a section other than
\* main has a "Back" or "Main Menu" button.
C22_BackOffered ==
    (/\ AfterText /\ last.path \in {"menu", "submenu"}
     /\ last.text \in EnteringLabels)
    => \E i \in 1..Len(out) : Range(KeyboardButtons(out[i].kb)) \cap BackTokens # {}

\* the last event was a document upload or a text passed to process_link
IngestionEvent ==
    \/ last.kind = "document"
    \/ /\ AfterText /\ last.mode = "add_link"
       /\ last.text \notin BackTokens /\ StartsWithHttp(last.text)

\* the status reply sent first
Processing(m) == m.op = "reply_text" /\ m.text \in {"Processing...", "Processing File..."}

\* a status that ends an ingestion
Terminal(m) == m.op = "edit_message_text" /\ m.text \in {"Done.", "Saved", "Error: e"}

\* C23: a document upload or a link ingestion sends the processing reply
\* first and then exactly one terminal status: done/saved when the loading
\* and storing returned, the error when one of them raised.
C23_OneTerminalStatus ==
    IngestionEvent
    => /\ Len(out) = 2 /\ Len(calls) = 1
       /\ Processing(out[1]) /\ Terminal(out[2])
       /\ out[2].text = "Error: e" <=> calls[1].res = "raise"

\* a link ingestion raised and ended with the error status
C23_Witness ==
    /\ AfterText /\ last.mode = "add_link" /\ last.text = "https://a.b"
    /\ Len(calls) = 1 /\ calls[1].res = "raise"
    /\ out = <<Reply("Processing...", <<>>, "-"), Edit("Error: e", <<>>)>>

\* C24: whenever handle_message handles a text while a mode is pending, the
\* mode is None when the handler returns: after a completion, after a
\* validation error and after a failure of a service alike.
C24_ModeLastsOneText ==
    [][\A c \in Chats : (TextStep(c) /\ ud[c].mode # None) => ud'[c].mode = None]_vars

\* a text that is no number was refused in mode set_market_rate and the mode
\* is gone
C24_Witness ==
    /\ AfterText /\ last.mode = "set_market_rate" /\ last.text = "abc"
    /\ \E i \in 1..Len(out) : ValidationError(out[i])
    /\ ud[last.chat].mode = None

\* the mode an inline button sets
ButtonMode(data) == IF data = "add_link" THEN "add_link" ELSE "delete_data"

\* C25: the buttons add_link and del_data set the mode add_link and
\* delete_data in every section and over every pending mode, and leave
\* section, tasks and persona unchanged; the buttons add_doc and list_mem
\* leave user_data unchanged.
C25_ButtonFrame ==
    [][\A c \in Chats :
          (last'.kind = "callback" /\ last'.chat = c)
          => IF last'.text \in {"add_link", "del_data"}
             THEN ud'[c] = [ud[c] EXCEPT !.mode = ButtonMode(last'.text)]
             ELSE ud'[c] = ud[c]]_vars

\* the delete button was pressed in the schedule while a reminder text was
\* awaited and a task was stored
C25_Witness ==
    /\ last.kind = "callback" /\ last.text = "del_data"
    /\ last.mode = "add_task" /\ last.section = "schedule"
    /\ ud[last.chat].mode = "delete_data"
    /\ GetSection(ud[last.chat]) = "schedule"
    /\ ud[last.chat].tasks # <<>>

\* C26: /start sets section main and mode None in every session state,
\* leaves tasks unchanged, keeps a stored persona and stores "cute" when
\* there is none.
C26_StartFrame ==
    [][\A c \in Chats :
          (last'.kind = "start" /\ last'.chat = c)
          => ud'[c] = [section |-> "main", mode |-> None,
                       persona |-> IF ud[c].persona = NoKey THEN "cute" ELSE ud[c].persona,
                       tasks |-> ud[c].tasks]]_vars

\* /start arrived while a mode was pending in a session with the persona
\* strict and a stored task
C26_Witness ==
    /\ last.kind = "start" /\ last.mode # None /\ last.section # "main"
    /\ ud[last.chat] = [section |-> "main", mode |-> None, persona |-> "strict",
                        tasks |-> <<"Buy milk">>]

====
